---- MODULE Spec2Model ----
(***************************************************************************)
(* Model of the generation-job orchestration of NarraSync:                 *)
(*   - MidjourneyGenerator.wait_for_task_completion_async and              *)
(*     MidjourneyGenerator.generate_image_async (midjourney_generator.py), *)
(*   - regenerate_scene_image_async / regenerate_scene_image_with_retry    *)
(*     (scene_management.py),                                              *)
(*   - generate_images_concurrently.generate_single_image_task             *)
(*     (full_process.py) and process_voice_generation                      *)
(*     (test_voice_generator.py).                                          *)
(*                                                                         *)
(* SpecJob runs ONE job as a sequential program, one step per statement    *)
(* group, with every backend response drawn nondeterministically.          *)
(* SpecBatch runs a whole batch behind the asyncio semaphore, with         *)
(* generate_image_async / synthesize abstracted to their return value.     *)
(* SpecSeq runs the sequential voice calls (voice_generator.py, app.py),   *)
(* SpecImg the synchronous image calls MidjourneyGenerator.generate_image  *)
(* and ComfyUIGenerator.get_images (image_generator.py).                   *)
(***************************************************************************)
EXTENDS Integers, Sequences, FiniteSets, TLC

(***************************************************************************)
(* Bounds of the model (not program constants).                            *)
(***************************************************************************)
MaxRetries == 2      \* largest max_retries passed to regenerate_scene_image_with_retry
NumScenes == 2       \* len(scenes) of the scene list handed to the retry entry
MaxWaitArg == 3      \* largest max_retries of a direct wait_for_task_completion_async call
MaxBatch == 3        \* largest small voice batch (sentences that may all fail)
MaxConcurrency == 2  \* largest mj_concurrency
Overflow == 1        \* the large voice batch has MAX_CONCURRENT_REQUESTS + Overflow sentences
MaxBlockingCalls == 1 \* most blocking calls one scene task makes on the event-loop thread
MaxSceneBatch == 2   \* largest key_scenes list of a Midjourney batch
MaxOpenAIBatch == 2  \* largest voice batch synthesized with OpenAI TTS
MaxSyncRetries == 3  \* largest max_retries passed to generate_image
MaxTexts == 3        \* longest list of texts of a sequential voice call

(***************************************************************************)
(* Program constants.                                                      *)
(***************************************************************************)
GenMaxRetries == 3   \* generate_image_async(..., max_retries=3, ...)
WaitMaxRetries == 30 \* wait_for_task_completion_async(..., max_retries=30, ...)
MAX_CONCURRENT_REQUESTS == 10
SynthMaxRetries == 3
max_timeout == 300    \* get_images: max_timeout = 300

VARIABLES
    \* ---- one job (SpecJob) ----
    pc,        \* position of the (single) flow of control
    job,       \* locals of the entry function (regenerate_scene_image_with_retry,
               \* generate_single_image_task or a direct wait call)
    scenes,    \* the scenes list: scenes[i] is the "prompt" of scene i (1-based scene_id)
    persisted, \* the prompts last written to key_scenes.json
    gen,       \* locals of the running generate_image_async
    wait,      \* locals of the running wait_for_task_completion_async
    hist       \* observations of the run; never read by the program

VARIABLES
    \* ---- one batch (SpecBatch) ----
    batch,      \* the call: which orchestrator, how many inputs, mj_concurrency
    semaphore,  \* asyncio.Semaphore: its value and its FIFO queue of waiting tasks
    started,    \* how many of the tasks handed to gather have run their first step
    tasks,      \* per task (0-based index): position and, once done, result
    key_scenes, \* the scene_data objects of a Midjourney batch
    call,       \* the batch call itself: gathering / returned / raised, its output, and
                \* the task that holds the event-loop thread in a blocking call (-1: none)
    blocking    \* per task: how many blocking calls it has made on the event-loop thread

VARIABLES
    \* ---- one sequential voice call (SpecSeq) ----
    seq,        \* the call: batch_synthesize / api_generate_batch_audio / one synthesize
    synth       \* locals of the running synthesize and what its backend did

jobVars == <<pc, job, scenes, persisted, gen, wait, hist>>
batchVars == <<batch, semaphore, started, tasks, key_scenes, call, blocking>>
seqVars == <<seq, synth>>

VARIABLES
    \* ---- one synchronous image call (SpecImg) ----
    sync,       \* locals of MidjourneyGenerator.generate_image and what its backend did
    comfy       \* locals of ComfyUIGenerator.get_images and the last websocket event

imgVars == <<sync, comfy>>

vars == <<jobVars, batchVars, seqVars, imgVars>>

(***************************************************************************)
(* Payloads.  A prompt is the scene it was written for and the chain of    *)
(* rewrites applied to it; the rewrite hook is an opaque function of the   *)
(* prompt it is given and of the retry number.                             *)
(***************************************************************************)
Prompt(i) == [base |-> i, rw |-> <<>>]

\* scene_management.rewrite_prompt_with_ai(original_prompt, retry_count): what the
\* LLM behind it answers is not known to its caller.  It is either a prompt that
\* differs from every prompt before it, or (job.hook = "same") the prompt it was given.
rewrite_prompt_with_ai(p, k) ==
    IF job.hook = "same" THEN p ELSE [p EXCEPT !.rw = Append(@, k)]

NoPrompt == [base |-> 0, rw |-> <<>>]
NoId == [call |-> 0, attempt |-> 0, kind |-> "none"]

\* The value None where a status result is expected ("等待超时": return None).
NoneResult == [status |-> "None", url |-> FALSE, reason |-> "none"]

\* The JSON bodies /task/{id}/fetch can answer with, as the caller reads them.
StatusResults ==
    {[status |-> "SUCCESS", url |-> u, reason |-> "none"] : u \in BOOLEAN}
    \cup {[status |-> "FAILURE", url |-> FALSE, reason |-> r] : r \in {"policy", "other"}}
    \cup {[status |-> s, url |-> FALSE, reason |-> "none"] : s \in {"ERROR", "IN_PROGRESS"}}

\* What a finished generate_image_async hands back: str(save_path) or None.
GenResults == {"path", "None"}

(***************************************************************************)
(* MidjourneyGenerator.wait_for_task_completion_async                      *)
(***************************************************************************)
\* A loop that runs once more than range(max_retries) does.
WaitLoopRunsInclusive(i, n) == i <= n

\* for i in range(max_retries): the loop body runs for i = 0 .. max_retries-1
WaitLoopRuns(i, n) == i < n

\* A test that ends the wait on a failed status request as well.
IsTerminalStatusWithError(s) == s \in {"SUCCESS", "FAILURE", "ERROR"}

\* A test that ends the wait on SUCCESS only.
IsTerminalStatusSuccessOnly(s) == s = "SUCCESS"

\* if status == "SUCCESS": return ... elif status == "FAILURE": return ...
IsTerminalStatus(s) == s \in {"SUCCESS", "FAILURE"}

\* if i < max_retries - 1: await asyncio.sleep(retry_interval)
SleepsAfter(i, n) == i < n - 1

\* The task id the running wait polls.
WaitTaskId == IF wait.phase = "dependent" THEN gen.upscale_task_id ELSE gen.initial_task_id

\* Where control goes when the wait returns.
WaitReturnPc ==
    CASE wait.phase = "initial" -> "g_after_initial"
      [] wait.phase = "dependent" -> "g_after_final"
      [] OTHER -> "done"

\* The call wait_for_task_completion_async(task_id, max_retries = n) made by `phase`.
WaitEnter(phase, n) == [phase |-> phase, max_retries |-> n, i |-> 0, result |-> NoneResult]

\* No wait is running: the frame of a returned wait is gone once its caller has read
\* the result.
WaitIdle == [phase |-> "none", max_retries |-> 0, i |-> 0, result |-> NoneResult]

\* One iteration of the loop up to its next suspension: check_task_status, then the
\* branches on the status.  time.sleep(2) blocks without suspending.
WaitCheck ==
    /\ UNCHANGED <<batchVars, seqVars, imgVars>>
    /\ pc = "w_check"
    /\ WaitLoopRuns(wait.i, wait.max_retries)
    /\ \E r \in StatusResults :
         /\ hist' = [hist EXCEPT !.checks_done = @ + 1, !.last_op = "poll",
                                 !.last_status = r.status,
                                 !.errors_only = @ /\ r.status = "ERROR",
                                 !.last_target = WaitTaskId,
                                 !.initial_ok = IF wait.phase = "initial"
                                                THEN r.status = "SUCCESS" ELSE @,
                                 !.final_ok = IF wait.phase = "dependent"
                                              THEN r.status = "SUCCESS" ELSE @,
                                 !.final_url = IF wait.phase = "dependent"
                                               THEN r.url ELSE @]
         /\ IF IsTerminalStatus(r.status)
               THEN /\ wait' = [wait EXCEPT !.result = r]
                    /\ pc' = WaitReturnPc
                    /\ job' = IF wait.phase = "direct"
                                THEN [job EXCEPT !.ret = [code |-> r.status, prompt |-> NoPrompt]]
                                ELSE job
               ELSE IF r.status = "ERROR"
               THEN /\ wait' = [wait EXCEPT !.i = @ + 1]
                    /\ pc' = "w_check"
                    /\ job' = job
               ELSE IF SleepsAfter(wait.i, wait.max_retries)
               THEN /\ wait' = wait
                    /\ pc' = "w_sleep"
                    /\ job' = job
               ELSE /\ wait' = [wait EXCEPT !.i = @ + 1]
                    /\ pc' = "w_check"
                    /\ job' = job
    /\ UNCHANGED <<scenes, persisted, gen>>

\* await asyncio.sleep(retry_interval) returns; the loop goes to its next iteration.
WaitSleep ==
    /\ UNCHANGED <<batchVars, seqVars, imgVars>>
    /\ pc = "w_sleep"
    /\ wait' = [wait EXCEPT !.i = @ + 1]
    /\ pc' = "w_check"
    /\ UNCHANGED <<job, scenes, persisted, gen, hist>>

\* The loop is exhausted: print("等待超时"); return None
WaitTimeout ==
    /\ UNCHANGED <<batchVars, seqVars, imgVars>>
    /\ pc = "w_check"
    /\ ~WaitLoopRuns(wait.i, wait.max_retries)
    /\ wait' = [wait EXCEPT !.result = NoneResult]
    /\ pc' = WaitReturnPc
    /\ hist' = [hist EXCEPT !.last_op = "none", !.timed_out = TRUE,
                            !.attempt_timed_out = TRUE]
    /\ job' = IF wait.phase = "direct"
                THEN [job EXCEPT !.ret = [code |-> "None", prompt |-> NoPrompt]]
                ELSE job
    /\ UNCHANGED <<scenes, persisted, gen>>

(***************************************************************************)
(* MidjourneyGenerator.generate_image_async                                *)
(***************************************************************************)
\* What submit_imagine_task can come back with: a task id; None after a code that
\* reports a banned prompt; None after any other code, a timeout or a network error.
SubmitResponses == {"accepted", "policy", "rejected"}

\* What submit_upscale_task can come back with: an accepted code (1, 21, 22) with a
\* task id, an accepted code without one, or any other code ({"code": -1} included).
UpscaleResponses == {"accepted", "no_id", "rejected"}

\* A loop condition that allows one attempt more.
GenLoopRunsInclusive(a) == a <= GenMaxRetries

\* for attempt in range(max_retries)
GenLoopRuns(a) == a < GenMaxRetries

\* A test that only looks for a reported FAILURE, so that the None of a timed-out
\* wait passes it.
InitialSucceededUnlessFailure(r) == r.status # "FAILURE"

\* A test that only looks at `if initial_result`, so that a FAILURE result passes it.
InitialSucceededIfResult(r) == r.status # "None"

\* A test that lets every result of the initial wait through.
InitialSucceededAlways(r) == TRUE

\* if initial_result and initial_result.get("status") == "SUCCESS"
InitialSucceeded(r) == r.status # "None" /\ r.status = "SUCCESS"

\* if final_result and final_result.get("status") == "SUCCESS"
FinalSucceeded(r) == r.status # "None" /\ r.status = "SUCCESS"

\* if attempt < max_retries - 1: continue  else: return None
UpscaleRetries(a) == a < GenMaxRetries - 1

\* Why a wait result that is not a SUCCESS failed the attempt: the poll loop timed
\* out, the backend refused the prompt, or anything else.
FailureKind(r) ==
    IF r.status = "None" THEN "timeout"
    ELSE IF r.reason = "policy" THEN "policy" ELSE "other"

\* The task id the backend hands out for a submission of this attempt.
NewId(kind) == [call |-> hist.calls, attempt |-> gen.attempt, kind |-> kind]

\* Where control goes when generate_image_async returns.
GenReturnPc ==
    IF job.entry = "retry" THEN "a_return"
    ELSE IF hist.calls = 1 THEN "t_after1" ELSE "t_after2"

\* The call generate_image_async(p, output_filename, ...).
GenEnter(p) ==
    [prompt |-> p, attempt |-> 0, initial_task_id |-> NoId, upscale_task_id |-> NoId,
     result |-> "None"]

\* The observations of a generate_image_async call end with the call; why it failed
\* stays known to whoever asks what preceded a rewrite.
HistGenExit(h) ==
    [h EXCEPT !.timed_out = FALSE, !.attempt_timed_out = FALSE, !.n_imagine = 0,
              !.n_upscale = 0, !.upscale_refs = <<>>, !.initial_ok = FALSE,
              !.final_ok = FALSE, !.final_url = FALSE, !.download_ok = FALSE,
              !.last_op = "none", !.last_target = NoId]

HistGenEnter(h) ==
    [h EXCEPT !.calls = @ + 1, !.fail_kind = "none", !.timed_out = FALSE,
              !.attempt_timed_out = FALSE,
              !.n_imagine = 0, !.n_upscale = 0, !.upscale_refs = <<>>,
              !.initial_ok = FALSE, !.final_ok = FALSE, !.final_url = FALSE,
              !.download_ok = FALSE, !.last_op = "none", !.last_target = NoId]

\* A test that takes every return value of submit_imagine_task for a task id.
HasTaskIdAlways(id) == TRUE

\* if initial_task_id
HasTaskId(id) == id # NoId

\* initial_task_id = self.submit_imagine_task(prompt, ...): the id of the new task, or
\* None when the submission failed.
SubmittedId(resp) == IF resp = "accepted" THEN NewId("imagine") ELSE NoId

\* A test that downloads whether or not the result carries an imageUrl.
HasImageUrlAlways(r) == TRUE

\* final_image_url = final_result.get("imageUrl"); if final_image_url
HasImageUrl(r) == r.url

\* Top of the attempt loop: submit_imagine_task, then either start the initial wait or
\* fall through to "--- 第 n 次尝试失败 ---" and the next attempt.
GenSubmit ==
    /\ UNCHANGED <<batchVars, seqVars, imgVars>>
    /\ pc = "g_submit"
    /\ GenLoopRuns(gen.attempt)
    /\ \E resp \in SubmitResponses :
         IF HasTaskId(SubmittedId(resp))
         THEN /\ gen' = [gen EXCEPT !.initial_task_id = SubmittedId(resp),
                                    !.upscale_task_id = NoId]
              /\ wait' = WaitEnter("initial", WaitMaxRetries)
              /\ pc' = "w_check"
              /\ hist' = [hist EXCEPT !.n_imagine = @ + 1, !.last_op = "imagine",
                                      !.last_target = SubmittedId(resp),
                                      !.upscale_refs = <<>>, !.initial_ok = FALSE,
                                      !.final_ok = FALSE, !.final_url = FALSE,
                                      !.download_ok = FALSE,
                                      !.attempt_timed_out = FALSE, !.checks_done = 0, !.last_status = "none",
                                      !.errors_only = TRUE]
         ELSE /\ gen' = [gen EXCEPT !.attempt = @ + 1, !.initial_task_id = NoId,
                                    !.upscale_task_id = NoId]
              /\ wait' = wait
              /\ pc' = "g_submit"
              /\ hist' = [hist EXCEPT !.n_imagine = @ + 1, !.last_op = "imagine",
                                      !.last_target = NoId,
                                      !.upscale_refs = <<>>, !.initial_ok = FALSE,
                                      !.final_ok = FALSE, !.final_url = FALSE,
                                      !.download_ok = FALSE,
                                      !.attempt_timed_out = FALSE,
                                      !.fail_kind = IF resp = "policy" THEN "policy"
                                                    ELSE "other"]
    /\ UNCHANGED <<job, scenes, persisted>>

\* The attempt loop is exhausted: print("图像生成失败，已达到最大重试次数"); return None
GenExhausted ==
    /\ UNCHANGED <<batchVars, seqVars, imgVars>>
    /\ pc = "g_submit"
    /\ ~GenLoopRuns(gen.attempt)
    /\ gen' = [gen EXCEPT !.result = "None"]
    /\ pc' = GenReturnPc
    /\ hist' = [hist EXCEPT !.last_op = "none"]
    /\ UNCHANGED <<job, scenes, persisted, wait>>

\* The initial wait returned.  On SUCCESS: pick U1..U4 (the pick does not steer the
\* control flow and is left out), submit_upscale_task, then start the dependent wait,
\* or retry the whole flow, or give up on the last attempt.  Otherwise the attempt failed.
GenAfterInitial ==
    /\ UNCHANGED <<batchVars, seqVars, imgVars>>
    /\ pc = "g_after_initial"
    /\ IF InitialSucceeded(wait.result)
       THEN \E resp \in UpscaleResponses :
              IF resp = "accepted"
              THEN /\ gen' = [gen EXCEPT !.upscale_task_id = NewId("upscale")]
                   /\ wait' = WaitEnter("dependent", WaitMaxRetries)
                   /\ pc' = "w_check"
                   /\ hist' = [hist EXCEPT !.last_op = "upscale",
                                           !.last_target = gen.initial_task_id,
                                           !.upscale_refs = Append(@, gen.initial_task_id),
                                           !.n_upscale = @ + 1,
                                           !.checks_done = 0, !.last_status = "none",
                                      !.errors_only = TRUE]
              ELSE /\ hist' = [hist EXCEPT !.last_op = "upscale",
                                           !.last_target = gen.initial_task_id,
                                           !.upscale_refs = Append(@, gen.initial_task_id),
                                           !.n_upscale = @ + 1,
                                           !.fail_kind = "other", !.checks_done = 0, !.last_status = "none",
                                      !.errors_only = TRUE]
                   /\ wait' = WaitIdle
                   /\ IF UpscaleRetries(gen.attempt)
                      THEN /\ gen' = [gen EXCEPT !.attempt = @ + 1]
                           /\ pc' = "g_submit"
                      ELSE /\ gen' = [gen EXCEPT !.result = "None"]
                           /\ pc' = GenReturnPc
       ELSE /\ gen' = [gen EXCEPT !.attempt = @ + 1]
            /\ wait' = WaitIdle
            /\ pc' = "g_submit"
            /\ hist' = [hist EXCEPT !.last_op = "none", !.checks_done = 0, !.last_status = "none",
                                      !.errors_only = TRUE,
                                    !.fail_kind = FailureKind(wait.result)]
    /\ UNCHANGED <<job, scenes, persisted>>

\* The dependent wait returned.  On SUCCESS with an imageUrl: download_image, and
\* return str(save_path) if it worked.  Everything else fails the attempt.
GenAfterFinal ==
    /\ UNCHANGED <<batchVars, seqVars, imgVars>>
    /\ pc = "g_after_final"
    /\ IF FinalSucceeded(wait.result) /\ HasImageUrl(wait.result)
       THEN \E ok \in BOOLEAN :
              IF ok
              THEN /\ gen' = [gen EXCEPT !.result = "path"]
                   /\ pc' = GenReturnPc
                   /\ hist' = [hist EXCEPT !.last_op = "download", !.checks_done = 0, !.last_status = "none",
                                      !.errors_only = TRUE,
                                           !.download_ok = TRUE,
                                           !.last_target = gen.upscale_task_id]
              ELSE /\ gen' = [gen EXCEPT !.attempt = @ + 1]
                   /\ pc' = "g_submit"
                   /\ hist' = [hist EXCEPT !.last_op = "download", !.checks_done = 0, !.last_status = "none",
                                      !.errors_only = TRUE,
                                           !.last_target = gen.upscale_task_id,
                                           !.fail_kind = "other"]
       ELSE /\ gen' = [gen EXCEPT !.attempt = @ + 1]
            /\ pc' = "g_submit"
            /\ hist' = [hist EXCEPT !.last_op = "none", !.checks_done = 0, !.last_status = "none",
                                      !.errors_only = TRUE,
                                    !.fail_kind = IF FinalSucceeded(wait.result)
                                                  THEN "other"
                                                  ELSE FailureKind(wait.result)]
    /\ wait' = WaitIdle
    /\ UNCHANGED <<job, scenes, persisted>>

(***************************************************************************)
(* scene_management.regenerate_scene_image_async (the adapter of the       *)
(* retry controller) and regenerate_scene_image_with_retry                 *)
(***************************************************************************)
Pending == [code |-> "pending", prompt |-> NoPrompt]

InvalidSceneIndexFromOne(id, n) == id - 1 <= 0 \/ id - 1 >= n

\* if scene_idx < 0 or scene_idx >= len(scenes), with scene_idx = int(scene_id) - 1
InvalidSceneIndex(id, n) == id - 1 < 0 \/ id - 1 >= n

\* A loop condition that allows one retry more.
RetryLoopRunsInclusive(st, rc, mr) == st # 200 /\ rc <= mr

\* A loop condition that allows two retries more.
RetryLoopRunsTwoMore(st, rc, mr) == st # 200 /\ rc < mr + 2

\* while status != 200 and retry_count < max_retries
RetryLoopRuns(st, rc, mr) == st # 200 /\ rc < mr

\* A rewrite that always starts from original_prompt.
RewriteInputOriginal(cur, orig) == orig

\* new_prompt = rewrite_prompt_with_ai(current_prompt, retry_count): the prompt handed
\* to the hook, given current_prompt and original_prompt.
RewriteInput(cur, orig) == cur

\* A failure exit that leaves the last rewritten prompt in the scene.
RestoredPromptCurrent(orig, cur) == cur

\* scene["prompt"] = original_prompt once every retry has failed: the prompt left in
\* the scene, given original_prompt and the last rewritten prompt.
RestoredPrompt(orig, cur) == orig

\* Where control goes when regenerate_scene_image_async returns or raises.
AdapterReturnPc == IF hist.calls = 0 THEN "r_after_first" ELSE "r_after_retry"

\* Entry: the index check, scene = scenes[scene_idx], original_prompt = scene["prompt"].
RetryStart ==
    /\ UNCHANGED <<batchVars, seqVars, imgVars>>
    /\ pc = "r_start"
    /\ IF InvalidSceneIndex(job.scene_id, Len(scenes))
       THEN /\ job' = [job EXCEPT !.ret = [code |-> "400", prompt |-> NoPrompt]]
            /\ pc' = "done"
       ELSE /\ job' = [job EXCEPT !.original_prompt = scenes[job.scene_id]]
            /\ pc' = "a_call"
    /\ UNCHANGED <<scenes, persisted, gen, wait, hist>>

\* asyncio.run(regenerate_scene_image_async(...)) up to the generator call: the scene
\* list is written to key_scenes.json and generate_image_async is entered with the
\* scene's current prompt.  A fault before the try block (the file cannot be written,
\* the generator cannot be built) leaves asyncio.run raising, which the caller turns
\* into status 500.
AdapterCall ==
    /\ UNCHANGED <<batchVars, seqVars, imgVars>>
    /\ pc = "a_call"
    /\ \E fault \in {"none", "before_save", "after_save"} :
         /\ persisted' = IF fault = "before_save" THEN persisted ELSE scenes
         /\ IF fault = "none"
            THEN /\ gen' = GenEnter(scenes[job.scene_id])
                 /\ hist' = HistGenEnter(hist)
                 /\ pc' = "g_submit"
                 /\ job' = job
            ELSE /\ gen' = gen
                 /\ hist' = [hist EXCEPT !.calls = @ + 1, !.fail_kind = "other",
                                         !.last_op = "none"]
                 /\ pc' = AdapterReturnPc
                 /\ job' = [job EXCEPT !.status = 500]
    /\ UNCHANGED <<scenes, wait>>

\* generate_image_async returned: a path gives (200, ..., image_file); None raises
\* ProcessingError inside the try block, which gives (500, ..., None).
AdapterReturn ==
    /\ UNCHANGED <<batchVars, seqVars, imgVars>>
    /\ pc = "a_return"
    /\ job' = [job EXCEPT !.status = IF gen.result = "path" THEN 200 ELSE 500]
    /\ hist' = [HistGenExit(hist) EXCEPT !.any_success = @ \/ gen.result = "path"]
    /\ gen' = GenEnter(gen.prompt)
    /\ pc' = IF hist.calls = 1 THEN "r_after_first" ELSE "r_after_retry"
    /\ UNCHANGED <<scenes, persisted, wait>>

\* The while loop from its condition, entered with the locals j: either one more
\* iteration up to its adapter call (rewrite the prompt, store it in the scene), or
\* the failure exit (restore the original prompt, save, return 500), or the success
\* exit after a retry.
RetryLoop(j) ==
    IF RetryLoopRuns(j.status, j.retry_count, j.max_retries)
    THEN LET k == j.retry_count + 1
             arg == RewriteInput(j.current_prompt, j.original_prompt)
             np == rewrite_prompt_with_ai(arg, k)
         IN  /\ job' = [j EXCEPT !.retry_count = k, !.new_prompt = np]
             /\ scenes' = [scenes EXCEPT ![j.scene_id] = np]
             /\ persisted' = persisted
             /\ hist' = [hist EXCEPT !.rewrite_log = Append(@, [arg |-> arg, n |-> k]),
                                     !.rewrite_cause = hist.fail_kind,
                                     !.last_op = "rewrite"]
             /\ pc' = "a_call"
    ELSE IF j.status # 200
    THEN LET restored == [scenes EXCEPT ![j.scene_id] =
                              RestoredPrompt(j.original_prompt, j.current_prompt)]
         IN  /\ job' = [j EXCEPT !.ret = [code |-> "500", prompt |-> NoPrompt]]
             /\ scenes' = restored
             /\ persisted' = restored
             /\ hist' = [hist EXCEPT !.last_op = "none"]
             /\ pc' = "done"
    ELSE /\ job' = [j EXCEPT !.ret = [code |-> "200", prompt |-> gen.prompt]]
         /\ UNCHANGED <<scenes, persisted>>
         /\ hist' = [hist EXCEPT !.last_op = "none"]
         /\ pc' = "done"

\* After the attempt with the original prompt: return it if it succeeded, else
\* retry_count = 0, current_prompt = original_prompt and the loop.
RetryAfterFirst ==
    /\ UNCHANGED <<batchVars, seqVars, imgVars>>
    /\ pc = "r_after_first"
    /\ IF job.status = 200
       THEN /\ job' = [job EXCEPT !.ret = [code |-> "200", prompt |-> gen.prompt]]
            /\ UNCHANGED <<scenes, persisted>>
            /\ hist' = [hist EXCEPT !.last_op = "none"]
            /\ pc' = "done"
       ELSE RetryLoop([job EXCEPT !.retry_count = 0,
                                  !.current_prompt = job.original_prompt])
    /\ UNCHANGED <<gen, wait>>

\* After a retry: current_prompt = new_prompt, then the loop condition again.
RetryAfterRetry ==
    /\ UNCHANGED <<batchVars, seqVars, imgVars>>
    /\ pc = "r_after_retry"
    /\ RetryLoop([job EXCEPT !.current_prompt = job.new_prompt])
    /\ UNCHANGED <<gen, wait>>

(***************************************************************************)
(* full_process.generate_images_concurrently.generate_single_image_task:   *)
(* the body of one Midjourney scene job (inside the semaphore)             *)
(***************************************************************************)
\* original_prompt = scene_data['prompt']; first generate_image_async(final_prompt)
TaskStart ==
    /\ UNCHANGED <<batchVars, seqVars, imgVars>>
    /\ pc = "t_start"
    /\ job' = [job EXCEPT !.original_prompt = scenes[job.scene_id]]
    /\ gen' = GenEnter(scenes[job.scene_id])
    /\ hist' = HistGenEnter(hist)
    /\ pc' = "g_submit"
    /\ UNCHANGED <<scenes, persisted, wait>>

\* The first generate_image_async call of the scene task, now that it is over.
FirstCall ==
    [imagine |-> hist.n_imagine, upscale |-> hist.n_upscale, result |-> gen.result]

\* if not image_file: new_prompt = rewrite_prompt_with_ai(original_prompt, 0) and the
\* second generate_image_async; else return the success record.
TaskAfterFirst ==
    /\ UNCHANGED <<batchVars, seqVars, imgVars>>
    /\ pc = "t_after1"
    /\ IF gen.result = "None"
       THEN LET np == rewrite_prompt_with_ai(job.original_prompt, 0)
            IN  /\ job' = [job EXCEPT !.new_prompt = np]
                /\ gen' = GenEnter(np)
                /\ hist' = [HistGenEnter(hist) EXCEPT
                                !.rewrite_log = Append(@, [arg |-> job.original_prompt,
                                                           n |-> 0]),
                                !.rewrite_cause = hist.fail_kind,
                                !.first_call = FirstCall]
                /\ pc' = "g_submit"
       ELSE /\ job' = [job EXCEPT !.ret = [code |-> "success", prompt |-> gen.prompt]]
            /\ gen' = GenEnter(gen.prompt)
            /\ hist' = [HistGenExit(hist) EXCEPT !.first_call = FirstCall]
            /\ pc' = "done"
    /\ UNCHANGED <<scenes, persisted, wait>>

\* After the second attempt: the failure record with scene_data untouched, or
\* scene_data['prompt'] = new_prompt and the success record.
TaskAfterSecond ==
    /\ UNCHANGED <<batchVars, seqVars, imgVars>>
    /\ pc = "t_after2"
    /\ IF gen.result = "None"
       THEN /\ job' = [job EXCEPT !.ret = [code |-> "failed", prompt |-> NoPrompt]]
            /\ scenes' = scenes
       ELSE /\ job' = [job EXCEPT !.ret = [code |-> "success", prompt |-> gen.prompt]]
            /\ scenes' = [scenes EXCEPT ![job.scene_id] = job.new_prompt]
    /\ hist' = HistGenExit(hist)
    /\ gen' = GenEnter(gen.prompt)
    /\ pc' = "done"
    /\ UNCHANGED <<persisted, wait>>

(***************************************************************************)
(* SpecJob: one job, from the call of its entry function to its return     *)
(***************************************************************************)
\* What generate_single_image_task has seen of its first generate_image_async call
\* when it tests `if not image_file`: the submissions the call made and its result.
NoFirstCall == [imagine |-> 0, upscale |-> 0, result |-> "none"]

HistInit ==
    [calls |-> 0, rewrite_log |-> <<>>,
     rewrite_cause |-> "none", fail_kind |-> "none", timed_out |-> FALSE,
     attempt_timed_out |-> FALSE,
     n_imagine |-> 0, checks_done |-> 0, last_status |-> "none", errors_only |-> TRUE,
     n_upscale |-> 0, upscale_refs |-> <<>>, first_call |-> NoFirstCall,
     initial_ok |-> FALSE, final_ok |-> FALSE, final_url |-> FALSE,
     download_ok |-> FALSE, any_success |-> FALSE, last_op |-> "none",
     last_target |-> NoId]

\* No synthesize is running.
SynthIdle ==
    [generator |-> "none", stage |-> "none", attempt |-> 0, requests |-> 0,
     calls |-> 0, retries |-> <<>>, audio |-> FALSE, ret |-> "none"]

\* No sequential voice call is running.
SeqIdle ==
    /\ seq = [kind |-> "none", texts |-> <<>>, i |-> 0, out |-> <<>>, calls |-> <<>>,
              is_json |-> TRUE, speaker_id |-> TRUE, pc |-> "none"]
    /\ synth = SynthIdle

\* No generate_image is running.
SyncIdle ==
    [pc |-> "none", max_retries |-> 0, attempt |-> 0, backend |-> <<>>, imagine |-> 0,
     sleeps |-> 0, ret |-> "none"]

\* No get_images is running.
ComfyIdle == [pc |-> "none", timeout_counter |-> 0, out |-> "none", ret |-> "none"]

\* No synchronous image call is running.
ImgIdle ==
    /\ sync = SyncIdle
    /\ comfy = ComfyIdle

JobLocals(e, id, mr) ==
    [entry |-> e, scene_id |-> id, max_retries |-> mr, hook |-> "rewrite",
     retry_count |-> 0, status |-> 0,
     original_prompt |-> NoPrompt, current_prompt |-> NoPrompt, new_prompt |-> NoPrompt,
     ret |-> Pending]

\* Nothing is written to <stem>_audio_info.json yet.
NoInfo == [total_sentences |-> 0, total_duration |-> 0, successful_generations |-> 0]

\* No batch is running.
BatchIdle ==
    /\ batch = [kind |-> "none", n |-> 0, limit |-> 0, failable |-> {},
                tts_service |-> "none"]
    /\ semaphore = [value |-> 0, waiters |-> <<>>]
    /\ started = 0
    /\ tasks = <<>>
    /\ blocking = <<>>
    /\ key_scenes = <<>>
    /\ call = [pc |-> "none", output |-> <<>>, out_of_order |-> FALSE, blocked |-> -1,
               info |-> NoInfo]

\* key_scenes.json as it is when the scene list handed to the retry entry carries
\* prompts that were edited and not yet saved.
StaleScenes == [i \in 1..NumScenes |-> NoPrompt]

InitJob ==
    /\ BatchIdle
    /\ SeqIdle
    /\ ImgIdle
    /\ scenes = [i \in 1..NumScenes |-> Prompt(i)]
    /\ gen = GenEnter(NoPrompt)
    /\ hist = HistInit
    /\ \/ /\ \E id \in 0..(NumScenes + 1), mr \in 0..MaxRetries :
                 \E h \in {"rewrite", "same"} :
                    job = [JobLocals("retry", id, mr) EXCEPT !.hook = h]
          /\ persisted \in {scenes, StaleScenes}
          /\ pc = "r_start"
          /\ wait = WaitIdle
       \/ /\ \E id \in 1..NumScenes : job = JobLocals("scene_task", id, 0)
          /\ persisted = scenes
          /\ pc = "t_start"
          /\ wait = WaitIdle
       \/ /\ job = JobLocals("wait", 0, 0)
          /\ persisted = scenes
          /\ pc = "w_check"
          /\ \E n \in 0..MaxWaitArg : wait = WaitEnter("direct", n)

NextJob ==
    \/ WaitCheck \/ WaitSleep \/ WaitTimeout
    \/ GenSubmit \/ GenExhausted \/ GenAfterInitial \/ GenAfterFinal
    \/ RetryStart \/ AdapterCall \/ AdapterReturn \/ RetryAfterFirst \/ RetryAfterRetry
    \/ TaskStart \/ TaskAfterFirst \/ TaskAfterSecond

SpecJob == InitJob /\ [][NextJob]_vars

(***************************************************************************)
(* The batch orchestrators: process_voice_generation (kind "voice") and    *)
(* the Midjourney branch of generate_images_concurrently (kind "mj").      *)
(* gather starts the tasks in index order; a task runs until it suspends,  *)
(* and the suspended tasks resume in any order.  The semaphore is          *)
(* asyncio.Semaphore: a counter and a FIFO queue of waiting tasks.         *)
(***************************************************************************)
Indices == 0..(batch.n - 1)

\* A semaphore that admits nobody.
SemaphoreValueZero(limit) == 0

\* A semaphore created one above the limit.
SemaphoreValueOffByOne(limit) == limit + 1

\* semaphore = asyncio.Semaphore(MAX_CONCURRENT_REQUESTS) / asyncio.Semaphore(mj_concurrency):
\* the initial value of the semaphore, given the limit of the batch.
SemaphoreValue(limit) == limit

\* Records numbered from one.
RecordIdOneBased(index) == index + 1

\* "id": index in the records of synthesize_sentence_task
RecordId(index) == index

\* "index": scene_index in the records of generate_single_image_task
ResultIndex(scene_index) == scene_index

NoTaskResult == [tag |-> "none"]
ExceptionResult == [tag |-> "exception"]

\* The task is between entering and leaving `async with semaphore`.
InBody(i) == tasks[i].pc \in {"synth", "gen1", "gen2"}

BodyPc == IF batch.kind = "voice" THEN "synth" ELSE "gen1"

\* What the backend can do with input i.
Outcomes(i) ==
    IF i \in batch.failable THEN {"ok", "fail", "raise"} ELSE {"ok"}

\* The event-loop thread is free: no task is inside a synchronous call on it.
LoopFree == call.blocked = -1

\* Task i can take a step on the event-loop thread: the thread is free, or i holds it.
LoopFreeFor(i) == call.blocked \in {-1, i}

\* Observation: task i finishes while a task before it in the input has not.
Finishes(i) ==
    [call EXCEPT !.out_of_order = @ \/ \E j \in Indices : j < i /\ tasks[j].pc # "done",
                 !.blocked = -1]

\* A release that gives nothing back.
ReleaseNothing(sem) == sem

\* Semaphore.release(): the value goes up; the first waiter is woken by WakeTask.
Release(sem) == [sem EXCEPT !.value = @ + 1]

\* The first step of the next task of gather: `async with semaphore` either takes
\* the semaphore and runs the body up to its first await, or queues the task.
StartTask ==
    /\ UNCHANGED <<jobVars, seqVars, imgVars>>
    /\ call.pc = "gathering"
    /\ LoopFree
    /\ started < batch.n
    /\ LET i == started IN
         IF semaphore.value > 0 /\ semaphore.waiters = <<>>
         THEN /\ semaphore' = [semaphore EXCEPT !.value = @ - 1]
              /\ tasks' = [tasks EXCEPT ![i].pc = BodyPc]
         ELSE /\ semaphore' = [semaphore EXCEPT !.waiters = Append(@, i)]
              /\ tasks' = [tasks EXCEPT ![i].pc = "waiting"]
    /\ started' = started + 1
    /\ UNCHANGED <<batch, key_scenes, call, blocking>>

\* A released semaphore goes to the task that has waited longest, which then runs
\* the body up to its first await.
WakeTask ==
    /\ UNCHANGED <<jobVars, seqVars, imgVars>>
    /\ call.pc = "gathering"
    /\ LoopFree
    /\ semaphore.waiters # <<>>
    /\ semaphore.value > 0
    /\ semaphore' = [value |-> semaphore.value - 1, waiters |-> Tail(semaphore.waiters)]
    /\ tasks' = [tasks EXCEPT ![Head(semaphore.waiters)].pc = BodyPc]
    /\ UNCHANGED <<batch, started, key_scenes, call, blocking>>

\* The decimal digits of n, most significant first.
RECURSIVE Digits(_)
Digits(n) == IF n < 10 THEN <<n>> ELSE Digits(n \div 10) \o <<n % 10>>

\* Zero padding on the left up to width w.
RECURSIVE ZeroPad(_, _)
ZeroPad(d, w) == IF Len(d) >= w THEN d ELSE ZeroPad(<<0>> \o d, w)

\* A name that does not depend on the index.
audio_file_shared(index) == [stem |-> <<0, 0, 0>>, ext |-> ".wav"]

\* audio_file = f"audio_{index:03d}.wav"; the stem is kept as the digits after
\* "audio_".  audio_path = output_path / audio_file: all jobs share the directory.
audio_file(index) == [stem |-> ZeroPad(Digits(index), 3), ext |-> ".wav"]

\* _get_file_paths of OpenAITTSGenerator for a path that ends in .wav:
\* temp_mp3_path = output_path[:-4] + '.mp3'
temp_mp3_path(output_path) == [output_path EXCEPT !.ext = ".mp3"]

\* The files synthesize(sentence, str(audio_path), ...) writes: VoiceVoxGenerator
\* writes output_path; OpenAITTSGenerator streams the answer to temp_mp3_path,
\* exports output_path from it and removes it.
SynthesizeWrites(tts_service, output_path) ==
    IF tts_service = "openai_tts" THEN {temp_mp3_path(output_path), output_path}
    ELSE {output_path}

\* The files task i of the voice batch writes.
TaskWrites(i) == SynthesizeWrites(batch.tts_service, audio_file(i))

\* The duration synthesize returns for sentence i, in whole units: every sentence
\* has its own.
Duration(i) == i + 1

\* synthesize_sentence_task after `await asyncio.to_thread(synthesize_func)`: the
\* record with "duration", or the record with "error" built by `except Exception`,
\* or an exception that leaves the task (raised outside the try block: the prints).
\* Leaving `async with` releases the semaphore on each of these paths.
SynthDone(i) ==
    /\ UNCHANGED <<jobVars, seqVars, imgVars>>
    /\ call.pc = "gathering"
    /\ batch.kind = "voice"
    /\ tasks[i].pc = "synth"
    /\ LoopFreeFor(i)
    /\ \E o \in Outcomes(i) :
         tasks' = [tasks EXCEPT ![i] =
                     [pc |-> "done",
                      result |-> IF o = "raise" THEN ExceptionResult
                                 ELSE [tag |-> "dict", id |-> RecordId(i),
                                       outcome |-> IF o = "ok" THEN "duration"
                                                   ELSE "error",
                                       duration |-> IF o = "ok" THEN Duration(i)
                                                    ELSE 0]]]
    /\ semaphore' = Release(semaphore)
    /\ call' = Finishes(i)
    /\ UNCHANGED <<batch, started, key_scenes, blocking>>

\* generate_single_image_task after its first generate_image_async: the success
\* record; or, on None, rewrite_prompt_with_ai(original_prompt, 0) and the second
\* generate_image_async; or an exception raised by the call, which leaves the task.
GenFirstDone(i) ==
    /\ UNCHANGED <<jobVars, seqVars, imgVars>>
    /\ call.pc = "gathering"
    /\ batch.kind = "mj"
    /\ tasks[i].pc = "gen1"
    /\ LoopFreeFor(i)
    /\ \E r \in Outcomes(i) :
         IF r = "fail"
         THEN /\ tasks' = [tasks EXCEPT ![i].pc = "gen2"]
              /\ semaphore' = semaphore
              /\ call' = [call EXCEPT !.blocked = -1]
         ELSE /\ tasks' = [tasks EXCEPT ![i] =
                     [pc |-> "done",
                      result |-> IF r = "raise" THEN ExceptionResult
                                 ELSE [tag |-> "dict", index |-> ResultIndex(i),
                                       scene_data |-> i, success |-> TRUE]]]
              /\ semaphore' = Release(semaphore)
              /\ call' = Finishes(i)
    /\ UNCHANGED <<batch, started, key_scenes, blocking>>

\* generate_single_image_task after its second generate_image_async: the failure
\* record with scene_data as it was; or scene_data['prompt'] = new_prompt and the
\* success record; or an exception that leaves the task.
GenSecondDone(i) ==
    /\ UNCHANGED <<jobVars, seqVars, imgVars>>
    /\ call.pc = "gathering"
    /\ batch.kind = "mj"
    /\ tasks[i].pc = "gen2"
    /\ LoopFreeFor(i)
    /\ \E r \in Outcomes(i) :
         /\ tasks' = [tasks EXCEPT ![i] =
                     [pc |-> "done",
                      result |-> IF r = "raise" THEN ExceptionResult
                                 ELSE [tag |-> "dict", index |-> ResultIndex(i),
                                       scene_data |-> i, success |-> (r = "ok")]]]
         /\ key_scenes' = IF r = "ok"
                          THEN [key_scenes EXCEPT ![i].prompt =
                                    rewrite_prompt_with_ai(key_scenes[i].prompt, 0)]
                          ELSE key_scenes
    /\ semaphore' = Release(semaphore)
    /\ call' = Finishes(i)
    /\ UNCHANGED <<batch, started, blocking>>

\* A Midjourney job resumes from `await asyncio.sleep` and makes a synchronous call
\* (requests.post / requests.get of submit_imagine_task, check_task_status,
\* submit_upscale_task, download_image; time.sleep(2)) on the event-loop thread.
BlockingCall(i) ==
    /\ UNCHANGED <<jobVars, seqVars, imgVars>>
    /\ call.pc = "gathering"
    /\ batch.kind = "mj"
    /\ tasks[i].pc \in {"gen1", "gen2"}
    /\ LoopFree
    /\ blocking[i] < MaxBlockingCalls
    /\ call' = [call EXCEPT !.blocked = i]
    /\ blocking' = [blocking EXCEPT ![i] = @ + 1]
    /\ UNCHANGED <<batch, semaphore, started, tasks, key_scenes>>

\* The synchronous call is over and the job suspends at its next `await asyncio.sleep`.
BlockingReturn(i) ==
    /\ UNCHANGED <<jobVars, seqVars, imgVars>>
    /\ call.pc = "gathering"
    /\ call.blocked = i
    /\ call' = [call EXCEPT !.blocked = -1]
    /\ UNCHANGED <<batch, semaphore, started, tasks, key_scenes, blocking>>

\* The loop `for i, result in enumerate(results)` of process_voice_generation.
audio_info ==
    [k \in 1..batch.n |->
        LET result == tasks[k - 1].result IN
        IF result.tag = "exception"
        THEN [id |-> k - 1, outcome |-> "error"]
        ELSE [id |-> result.id, outcome |-> result.outcome]]

CountsAsSuccessAnyDict(result) == result.tag = "dict"

\* elif isinstance(result, dict): ... if "duration" in result
CountsAsSuccess(result) == result.tag = "dict" /\ result.outcome = "duration"

\* f[1] + ... + f[k]
RECURSIVE SumTo(_, _)
SumTo(f, k) == IF k = 0 THEN 0 ELSE SumTo(f, k - 1) + f[k]

\* total_duration and successful_count as the loop over results leaves them, and
\* what json.dump writes with them.
total_duration ==
    SumTo([k \in 1..batch.n |-> IF CountsAsSuccess(tasks[k - 1].result)
                                 THEN tasks[k - 1].result.duration ELSE 0], batch.n)

successful_count ==
    SumTo([k \in 1..batch.n |-> IF CountsAsSuccess(tasks[k - 1].result) THEN 1 ELSE 0],
          batch.n)

AudioInfoFile ==
    [total_sentences |-> batch.n, total_duration |-> total_duration,
     successful_generations |-> successful_count]

\* The loop `for result in results` of generate_images_concurrently: scene_data gets
\* its image_file_generated and goes to processed_scenes[idx]; a later result for
\* the same idx overwrites an earlier one.
ScenesAfterResults ==
    [i \in Indices |->
        [key_scenes[i] EXCEPT !.generated =
            IF tasks[i].result.success THEN "path" ELSE "None"]]

Placed(k) ==
    LET from == {j \in Indices : tasks[j].result.index = k} IN
    IF from = {} THEN <<>>
    ELSE LET j == CHOOSE x \in from : \A y \in from : y <= x
         IN  <<ScenesAfterResults[tasks[j].result.scene_data]>>

RECURSIVE Concat(_, _)
Concat(f, k) == IF k = 0 THEN <<>> ELSE Concat(f, k - 1) \o f[k]

\* processed_scenes = [s for s in processed_scenes if s is not None]
processed_scenes == Concat([k \in 1..batch.n |-> Placed(k - 1)], batch.n)

\* gather is done: every task has a result.  With return_exceptions=True (voice) the
\* exceptions are results; without it (mj) the call returns only if no task raised.
BatchReturn ==
    /\ UNCHANGED <<jobVars, seqVars, imgVars>>
    /\ call.pc = "gathering"
    /\ LoopFree
    /\ \A i \in Indices : tasks[i].pc = "done"
    /\ batch.kind = "mj" => \A i \in Indices : tasks[i].result.tag # "exception"
    /\ call' = [call EXCEPT !.pc = "returned",
                            !.output = IF batch.kind = "voice" THEN audio_info
                                       ELSE processed_scenes,
                            !.info = IF batch.kind = "voice" THEN AudioInfoFile
                                     ELSE NoInfo]
    /\ key_scenes' = IF batch.kind = "mj" THEN ScenesAfterResults ELSE key_scenes
    /\ UNCHANGED <<batch, semaphore, started, tasks, blocking>>

\* results = await asyncio.gather(*tasks) without return_exceptions: the exception
\* of a task is raised in generate_images_concurrently, which has no handler.
BatchRaise ==
    /\ UNCHANGED <<jobVars, seqVars, imgVars>>
    /\ call.pc = "gathering"
    /\ LoopFree
    /\ batch.kind = "mj"
    /\ \E i \in Indices : tasks[i].result.tag = "exception"
    /\ call' = [call EXCEPT !.pc = "raised"]
    /\ UNCHANGED <<batch, semaphore, started, tasks, key_scenes, blocking>>

\* No single job is running.
JobIdle ==
    /\ pc = "none"
    /\ job = JobLocals("none", 0, 0)
    /\ scenes = <<>>
    /\ persisted = <<>>
    /\ gen = GenEnter(NoPrompt)
    /\ wait = WaitIdle
    /\ hist = HistInit

\* The batch call up to gather: the semaphore and one task per input.
BatchEnter(kind, n, limit, failable, tts_service) ==
    /\ batch = [kind |-> kind, n |-> n, limit |-> limit, failable |-> failable,
                tts_service |-> tts_service]
    /\ semaphore = [value |-> SemaphoreValue(limit), waiters |-> <<>>]
    /\ started = 0
    /\ tasks = [i \in 0..(n - 1) |-> [pc |-> "created", result |-> NoTaskResult]]
    /\ blocking = [i \in 0..(n - 1) |-> 0]
    /\ key_scenes = IF kind = "mj"
                    THEN [i \in 0..(n - 1) |->
                            [scene |-> i, prompt |-> Prompt(i + 1), generated |-> "unset"]]
                    ELSE <<>>
    /\ call = [pc |-> "gathering", output |-> <<>>, out_of_order |-> FALSE, blocked |-> -1,
               info |-> NoInfo]

InitBatch ==
    /\ JobIdle
    /\ SeqIdle
    /\ ImgIdle
    /\ \/ \E n \in 0..MaxBatch :
            BatchEnter("voice", n, MAX_CONCURRENT_REQUESTS, 0..(n - 1), "voicevox")
       \/ \E n \in 0..MaxOpenAIBatch :
            BatchEnter("voice", n, MAX_CONCURRENT_REQUESTS, 0..(n - 1), "openai_tts")
       \/ \E f \in {{}, {0}, {MAX_CONCURRENT_REQUESTS + Overflow - 1}} :
            BatchEnter("voice", MAX_CONCURRENT_REQUESTS + Overflow,
                       MAX_CONCURRENT_REQUESTS, f, "voicevox")
       \/ \E n \in 0..MaxSceneBatch, mj_concurrency \in 1..MaxConcurrency :
            BatchEnter("mj", n, mj_concurrency, 0..(n - 1), "none")

NextBatch ==
    \/ StartTask \/ WakeTask
    \/ \E i \in Indices : SynthDone(i) \/ GenFirstDone(i) \/ GenSecondDone(i)
    \/ \E i \in Indices : BlockingCall(i) \/ BlockingReturn(i)
    \/ BatchReturn \/ BatchRaise

SpecBatch == InitBatch /\ [][NextBatch]_vars

\* The event loop runs a task that can run, and every backend request comes back:
\* as long as some step of the batch is possible, one is taken.
SpecBatchFair == SpecBatch /\ WF_vars(NextBatch)

(***************************************************************************)
(* SpecSeq: the sequential voice calls.  VoiceVoxGenerator.batch_synthesize *)
(* walks its texts and calls synthesize for each; synthesize (of either     *)
(* generator) sends its backend requests through _with_retry.               *)
(***************************************************************************)
\* A text is either blank (empty or whitespace only) or not; nothing else of it is read.
Texts == {"text", "blank"}

\* if not text.strip()
IsBlank(t) == t = "blank"

\* The lists of texts a call is given.
TextLists == UNION {[1..n -> Texts] : n \in 0..MaxTexts}

WithRetryRunsInclusive(a) == a <= SynthMaxRetries

\* _with_retry: for attempt in range(self.max_retries)
WithRetryRuns(a) == a < SynthMaxRetries

\* The backend requests synthesize makes through _with_retry, in order: VoiceVox asks
\* /audio_query and then /synthesis, OpenAI TTS asks audio.speech.create.
FirstStage(g) == IF g = "voicevox" THEN "audio_query" ELSE "speech"

\* The call synthesize(text, output_path, ...) of generator g.  `attempt` is the loop
\* variable of the running _with_retry; `calls` counts its calls of func, and `retries`
\* keeps, for each _with_retry that is over, its calls, how many of them raised, and
\* how it ended.
SynthEnter(g) ==
    [generator |-> g, stage |-> FirstStage(g), attempt |-> 0, requests |-> 0,
     calls |-> 0, retries |-> <<>>, audio |-> FALSE, ret |-> "none"]

\* What synthesize does once _with_retry has raised: VoiceVox re-raises the
\* VoiceVoxError; OpenAI TTS catches it and returns _estimate_duration_from_chars(text).
AfterRetriesExhausted(g) == IF g = "voicevox" THEN "raise" ELSE "duration"

\* A _with_retry that is over, as `retries` keeps it.
WithRetryOver(calls, raised, outcome) ==
    [calls |-> calls, raised |-> raised, outcome |-> outcome]

\* One attempt of _with_retry: the request either answers or raises.  An answered
\* /audio_query leads to the /synthesis requests; an answered /synthesis or
\* audio.speech.create is the audio.
SynthRequest ==
    /\ UNCHANGED <<jobVars, batchVars, imgVars>>
    /\ seq.pc = "synth"
    /\ synth.ret = "none"
    /\ synth.stage \in {"audio_query", "synthesis", "speech"}
    /\ WithRetryRuns(synth.attempt)
    /\ \E ok \in BOOLEAN :
         LET over == Append(synth.retries,
                            WithRetryOver(synth.calls + 1, synth.attempt, "returned"))
         IN
         synth' = IF ~ok
                  THEN [synth EXCEPT !.attempt = @ + 1, !.requests = @ + 1,
                                     !.calls = @ + 1]
                  ELSE IF synth.stage = "audio_query"
                  THEN [synth EXCEPT !.stage = "synthesis", !.attempt = 0,
                                     !.requests = @ + 1, !.calls = 0,
                                     !.retries = over]
                  ELSE IF synth.stage = "synthesis"
                  THEN [synth EXCEPT !.stage = "write", !.requests = @ + 1,
                                     !.calls = @ + 1, !.retries = over,
                                     !.audio = TRUE]
                  ELSE [synth EXCEPT !.stage = "done", !.requests = @ + 1,
                                     !.calls = @ + 1, !.retries = over,
                                     !.audio = TRUE, !.ret = "duration"]
    /\ seq' = seq

\* _with_retry has used up its attempts and raises.
SynthExhausted ==
    /\ UNCHANGED <<jobVars, batchVars, imgVars>>
    /\ seq.pc = "synth"
    /\ synth.ret = "none"
    /\ synth.stage \in {"audio_query", "synthesis", "speech"}
    /\ ~WithRetryRuns(synth.attempt)
    /\ synth' = [synth EXCEPT !.stage = "done",
                              !.retries = Append(@, WithRetryOver(synth.calls,
                                                                  synth.attempt, "raised")),
                              !.ret = AfterRetriesExhausted(synth.generator)]
    /\ seq' = seq

\* VoiceVox: Path(output_path).write_bytes(audio_data), then wave.open reads the
\* duration; a file that is no WAV raises, wrapped into VoiceVoxError.
SynthWrite ==
    /\ UNCHANGED <<jobVars, batchVars, imgVars>>
    /\ seq.pc = "synth"
    /\ synth.stage = "write"
    /\ \E ok \in BOOLEAN :
         synth' = [synth EXCEPT !.stage = "done",
                                !.ret = IF ok THEN "duration" ELSE "raise"]
    /\ seq' = seq

\* The record batch_synthesize appends for text i once synthesize has returned or raised.
SynthRecord(i, ret) ==
    [id |-> i, outcome |-> IF ret = "duration" THEN "duration" ELSE "error"]

\* The top of the loop `for i, text in enumerate(texts)` of batch_synthesize: the
\* loop is over and the result is returned; or the text is blank and skipped with
\* `continue`; or synthesize is called.
SeqLoop ==
    /\ UNCHANGED <<jobVars, batchVars, imgVars>>
    /\ seq.kind = "batch_synthesize"
    /\ seq.pc = "loop"
    /\ IF seq.i >= Len(seq.texts)
       THEN /\ seq' = [seq EXCEPT !.pc = "returned"]
            /\ synth' = synth
       ELSE IF IsBlank(seq.texts[seq.i + 1])
       THEN /\ seq' = [seq EXCEPT !.i = @ + 1]
            /\ synth' = synth
       ELSE /\ seq' = [seq EXCEPT !.pc = "synth", !.calls = Append(@, seq.i)]
            /\ synth' = SynthEnter("voicevox")

\* synthesize is over.  batch_synthesize appends the record with "duration" or, in
\* `except Exception`, the record with "error", and goes on with the next text; a
\* direct call of synthesize is over.
SeqAfterSynth ==
    /\ UNCHANGED <<jobVars, batchVars, imgVars>>
    /\ seq.pc = "synth"
    /\ synth.ret # "none"
    /\ IF seq.kind = "batch_synthesize"
       THEN /\ seq' = [seq EXCEPT !.pc = "loop", !.i = @ + 1,
                                  !.out = Append(@, SynthRecord(seq.i, synth.ret))]
            /\ synth' = SynthIdle
       ELSE /\ seq' = [seq EXCEPT !.pc = "returned"]
            /\ synth' = synth

PendingItemOneBased(index) ==
    [index |-> index + 1, status |-> "pending", audio_path |-> FALSE,
     duration_seconds |-> FALSE, error |-> FALSE]

\* result_item as api_generate_batch_audio creates it; audio_path, duration_seconds
\* and error are kept as "is not None".
PendingItem(index) ==
    [index |-> index, status |-> "pending", audio_path |-> FALSE,
     duration_seconds |-> FALSE, error |-> FALSE]

\* What the steps of one item can come to: create_audio_query fails, create_synthesis
\* fails, it gives no path or no such file, get_wav_duration fails, or all work.
ItemOutcomes == {"query_error", "synth_error", "no_file", "duration_error", "ok"}

\* result_item as it is appended for a text that is not blank, given what happened.
ResultItem(index, o) ==
    CASE o \in {"query_error", "synth_error", "no_file"} ->
            [PendingItem(index) EXCEPT !.status = "error", !.error = TRUE]
      [] o = "duration_error" ->
            [PendingItem(index) EXCEPT !.audio_path = TRUE, !.error = TRUE,
                                       !.status = "success_no_duration"]
      [] OTHER ->
            [PendingItem(index) EXCEPT !.audio_path = TRUE, !.duration_seconds = TRUE,
                                       !.status = "success"]

\* api_generate_batch_audio up to its loop: a request that is no JSON: 415; no texts,
\* no list, or no speaker_id: 400.
ApiStart ==
    /\ UNCHANGED <<jobVars, batchVars, imgVars>>
    /\ seq.kind = "api"
    /\ seq.pc = "start"
    /\ seq' = [seq EXCEPT !.pc = IF ~seq.is_json THEN "415"
                                 ELSE IF seq.texts = <<>> THEN "400"
                                 ELSE IF ~seq.speaker_id THEN "400"
                                 ELSE "loop"]
    /\ synth' = synth

\* One iteration of `for index, text in enumerate(texts)` of api_generate_batch_audio,
\* or its end: return jsonify(results).
ApiItem ==
    /\ UNCHANGED <<jobVars, batchVars, imgVars>>
    /\ seq.kind = "api"
    /\ seq.pc = "loop"
    /\ IF seq.i >= Len(seq.texts)
       THEN seq' = [seq EXCEPT !.pc = "returned"]
       ELSE IF IsBlank(seq.texts[seq.i + 1])
       THEN seq' = [seq EXCEPT !.i = @ + 1,
                               !.out = Append(@, [PendingItem(seq.i) EXCEPT
                                                    !.status = "error", !.error = TRUE])]
       ELSE \E o \in ItemOutcomes :
              seq' = [seq EXCEPT !.i = @ + 1, !.calls = Append(@, seq.i),
                                 !.out = Append(@, ResultItem(seq.i, o))]
    /\ synth' = synth

\* The call batch_synthesize(texts, ...) of VoiceVoxGenerator, one call of synthesize
\* of generator g, or a request to api_generate_batch_audio; of a request, is_json is
\* request.is_json and speaker_id is `data.get('speaker_id') is not None`.
SeqEnter(kind, texts) ==
    [kind |-> kind, texts |-> texts, i |-> 0, out |-> <<>>, calls |-> <<>>,
     is_json |-> TRUE, speaker_id |-> TRUE,
     pc |-> CASE kind = "synthesize" -> "synth"
              [] kind = "api" -> "start"
              [] OTHER -> "loop"]

InitSeq ==
    /\ JobIdle
    /\ BatchIdle
    /\ ImgIdle
    /\ \/ /\ \E texts \in TextLists : seq = SeqEnter("batch_synthesize", texts)
          /\ synth = SynthIdle
       \/ /\ \E texts \in TextLists, j \in BOOLEAN, sp \in BOOLEAN :
                 seq = [SeqEnter("api", texts) EXCEPT !.is_json = j, !.speaker_id = sp]
          /\ synth = SynthIdle
       \/ /\ seq = SeqEnter("synthesize", <<"text">>)
          /\ \E g \in {"voicevox", "openai"} : synth = SynthEnter(g)

NextSeq ==
    \/ SeqLoop \/ SeqAfterSynth
    \/ ApiStart \/ ApiItem
    \/ SynthRequest \/ SynthExhausted \/ SynthWrite

SpecSeq == InitSeq /\ [][NextSeq]_vars

(***************************************************************************)
(* SpecImg: the synchronous image calls.  MidjourneyGenerator.generate_image *)
(* is the blocking twin of generate_image_async; ComfyUIGenerator.get_images *)
(* queues a prompt and waits on the websocket for its completion message.    *)
(***************************************************************************)
\* The methods class MidjourneyGenerator defines (it has no base class and no
\* __getattr__): what self.<name> can be looked up.
MidjourneyGeneratorMethods ==
    {"__init__", "submit_imagine_task", "submit_upscale_task", "check_task_status",
     "download_image", "wait_for_task_completion_async", "generate_image_async",
     "generate_image", "generate_images"}

\* self.<name> is found; otherwise the lookup raises AttributeError.
HasMethod(name) == name \in MidjourneyGeneratorMethods

\* What the backend does with the requests of one attempt, were they all made: the
\* first step that does not work, or none.
BackendRuns ==
    {"imagine_rejected", "initial_not_success", "initial_no_url", "upscale_rejected",
     "final_not_success", "final_no_url", "download_fails", "all_succeed"}

\* generate_image: for attempt in range(max_retries)
SyncLoopRuns(attempt, max_retries) == attempt < max_retries

\* How one pass through the try block of generate_image ends against backend run b:
\* `continue`, the `except Exception` handler, or `return output_path`.
SyncAttemptOutcome(b) ==
    IF b = "imagine_rejected" THEN "continue"
    ELSE IF ~HasMethod("wait_for_task_completion") THEN "except"
    ELSE IF b \in {"initial_not_success", "initial_no_url", "upscale_rejected"}
    THEN "continue"
    ELSE IF b \in {"final_not_success", "final_no_url", "download_fails"} THEN "continue"
    ELSE "return"

\* The call generate_image(prompt, output_filename, max_retries).
SyncEnter(max_retries) ==
    [pc |-> "attempt", max_retries |-> max_retries, attempt |-> 0, backend |-> <<>>,
     imagine |-> 0, sleeps |-> 0, ret |-> "none"]

\* One pass through the try block: submit_imagine_task, then the rest.
SyncAttempt ==
    /\ UNCHANGED <<jobVars, batchVars, seqVars>>
    /\ sync.pc = "attempt"
    /\ SyncLoopRuns(sync.attempt, sync.max_retries)
    /\ \E b \in BackendRuns :
         LET o == SyncAttemptOutcome(b)
             s == [sync EXCEPT !.backend = Append(@, b), !.imagine = @ + 1]
         IN  sync' = CASE o = "continue" -> [s EXCEPT !.attempt = @ + 1]
                       [] o = "except" -> [s EXCEPT !.pc = "except"]
                       [] OTHER -> [s EXCEPT !.pc = "returned", !.ret = "path"]
    /\ comfy' = comfy

\* except Exception as e: print, time.sleep(5), and the next attempt.
SyncExcept ==
    /\ UNCHANGED <<jobVars, batchVars, seqVars>>
    /\ sync.pc = "except"
    /\ sync' = [sync EXCEPT !.pc = "attempt", !.attempt = @ + 1, !.sleeps = @ + 1]
    /\ comfy' = comfy

\* The loop is over: return None.
SyncExhausted ==
    /\ UNCHANGED <<jobVars, batchVars, seqVars>>
    /\ sync.pc = "attempt"
    /\ ~SyncLoopRuns(sync.attempt, sync.max_retries)
    /\ sync' = [sync EXCEPT !.pc = "returned", !.ret = "None"]
    /\ comfy' = comfy

\* What ws.recv() can come to: the `executing` message with node None for the own
\* prompt_id, an `executing` message of a node, the `executing` message with node None
\* of another prompt, a message of another type, a message that is no str, the
\* WebSocketTimeoutException of the one-second timeout, or any other exception.
ComfyEvents ==
    {"done", "executing_node", "other_prompt_done", "other_type", "binary", "timeout",
     "error"}

\* while timeout_counter < max_timeout
ComfyLoopRuns(timeout_counter) == timeout_counter < max_timeout

\* The call get_images(ws, workflow, output_file), before queue_prompt.
ComfyEnter == [pc |-> "queue", timeout_counter |-> 0, out |-> "none", ret |-> "none"]

\* prompt_id = self.queue_prompt(workflow)['prompt_id']: it raises into the outer
\* `except Exception` (return False), or the wait begins.
ComfyQueue ==
    /\ UNCHANGED <<jobVars, batchVars, seqVars>>
    /\ comfy.pc = "queue"
    /\ \E ok \in BOOLEAN :
         comfy' = IF ok THEN [comfy EXCEPT !.pc = "wait"]
                  ELSE [comfy EXCEPT !.pc = "returned", !.ret = "False"]
    /\ sync' = sync

\* One pass through the wait loop: out = ws.recv() and what follows from it.
ComfyRecv ==
    /\ UNCHANGED <<jobVars, batchVars, seqVars>>
    /\ comfy.pc = "wait"
    /\ ComfyLoopRuns(comfy.timeout_counter)
    /\ \E e \in ComfyEvents :
         comfy' = CASE e \in {"done", "error"} -> [comfy EXCEPT !.out = e, !.pc = "after"]
                    [] e = "timeout" -> [comfy EXCEPT !.out = e, !.timeout_counter = @ + 1]
                    [] OTHER -> [comfy EXCEPT !.out = e]
    /\ sync' = sync

\* The while condition is false: the loop is left.
ComfyLoopEnds ==
    /\ UNCHANGED <<jobVars, batchVars, seqVars>>
    /\ comfy.pc = "wait"
    /\ ~ComfyLoopRuns(comfy.timeout_counter)
    /\ comfy' = [comfy EXCEPT !.pc = "after"]
    /\ sync' = sync

\* After the loop: `if timeout_counter >= max_timeout: return False`; else get_history
\* and the saving of the image, which return True or False.
ComfyAfterWait ==
    /\ UNCHANGED <<jobVars, batchVars, seqVars>>
    /\ comfy.pc = "after"
    /\ IF comfy.timeout_counter >= max_timeout
       THEN comfy' = [comfy EXCEPT !.pc = "returned", !.ret = "False"]
       ELSE \E saved \in BOOLEAN :
              comfy' = [comfy EXCEPT !.pc = "returned",
                                     !.ret = IF saved THEN "True" ELSE "False"]
    /\ sync' = sync

InitImg ==
    /\ JobIdle
    /\ BatchIdle
    /\ SeqIdle
    /\ \/ /\ \E mr \in 0..MaxSyncRetries : sync = SyncEnter(mr)
          /\ comfy = ComfyIdle
       \/ /\ sync = SyncIdle
          /\ comfy = ComfyEnter

NextImg ==
    \/ SyncAttempt \/ SyncExcept \/ SyncExhausted
    \/ ComfyQueue \/ ComfyRecv \/ ComfyLoopEnds \/ ComfyAfterWait

SpecImg == InitImg /\ [][NextImg]_vars

\* The calling thread keeps running: as long as the call has a next step, it takes
\* one.  Which event the websocket delivers is not the program's to choose.
SpecImgFair == SpecImg /\ WF_vars(NextImg)

(***************************************************************************)
(* Properties                                                              *)
(***************************************************************************)
ReturnPcs == {"a_return", "t_after1", "t_after2"}

RetryFailed ==
    /\ pc = "done" /\ job.entry = "retry"
    /\ job.scene_id \in 1..NumScenes
    /\ ~hist.any_success

\* C1: in a batch run with concurrency limit N, at no moment are more than N job
\* bodies running inside the semaphore, in either orchestrator and whatever the size
\* of the batch.
C1_ConcurrencyBound ==
    Cardinality({i \in Indices : tasks[i].pc \in {"synth", "gen1", "gen2"}}) <= batch.limit

\* A voice batch larger than the limit, with the limit reached and a job kept waiting.
C1_Witness ==
    /\ batch.kind = "voice"
    /\ batch.n > batch.limit
    /\ Cardinality({i \in Indices : tasks[i].pc = "synth"}) = batch.limit
    /\ semaphore.waiters # <<>>

\* C2: when the batch call returns, the aggregate has one entry per input and the
\* entry at position i is the record of input i, whatever the order of completion.
C2_OrderPreserved ==
    call.pc = "returned" =>
        /\ Len(call.output) = batch.n
        /\ \A k \in 1..batch.n :
             IF batch.kind = "voice"
             THEN /\ call.output[k].id = k - 1
                  /\ tasks[k - 1].result.tag = "dict"
                        => call.output[k].outcome = tasks[k - 1].result.outcome
             ELSE /\ call.output[k].scene = k - 1
                  /\ call.output[k].generated =
                        (IF tasks[k - 1].result.success THEN "path" ELSE "None")

\* A batch that returned after a job finished before one that precedes it in the input.
C2_Witness ==
    /\ call.pc = "returned"
    /\ call.out_of_order
    /\ batch.n >= 3

\* C3: a job body that raises makes neither orchestrator raise: the batch still
\* returns one entry per input, with an error record in the slot of the faulting job.
C3_FaultIsolation ==
    (\E i \in Indices : tasks[i].result.tag = "exception") =>
        /\ call.pc # "raised"
        /\ call.pc = "returned" =>
             /\ Len(call.output) = batch.n
             /\ \A i \in Indices :
                  tasks[i].result.tag = "exception" =>
                      call.output[i + 1] = [id |-> i, outcome |-> "error"]

C5_OriginalPayloadOnFailure ==
    /\ (pc = "done" /\ job.ret.code = "500") =>
            /\ scenes[job.scene_id] = Prompt(job.scene_id)
            /\ persisted[job.scene_id] = Prompt(job.scene_id)
    /\ (pc = "done" /\ job.ret.code = "failed") =>
            scenes[job.scene_id] = Prompt(job.scene_id)

\* A retry job that rewrote the scene's prompt, failed, and returned.
C5_Witness ==
    /\ pc = "done"
    /\ job.ret.code = "500"
    /\ Len(hist.rewrite_log) >= 2

C7_OnlyPolicyRewrites == hist.rewrite_cause \in {"none", "policy"}

\* C8: a wait with max_retries = N never makes more than N status checks, and a wait
\* that returns None has made exactly N.
C8_HardPollBound ==
    /\ wait.phase # "none" => hist.checks_done <= wait.max_retries
    /\ (/\ wait.phase # "none"
        /\ pc \in {"g_after_initial", "g_after_final", "done"}
        /\ wait.result.status = "None") => hist.checks_done = wait.max_retries

\* The initial wait of generate_image_async ran out after its 30 checks.
C8_Witness ==
    /\ pc = "g_after_initial"
    /\ wait.result.status = "None"
    /\ hist.checks_done = WaitMaxRetries
    /\ hist.timed_out

C10_TwoPhaseChaining ==
    /\ Len(hist.upscale_refs) <= 1
    /\ ~hist.initial_ok => hist.upscale_refs = <<>>
    /\ (hist.initial_ok /\ pc # "g_after_initial") =>
            hist.upscale_refs = <<gen.initial_task_id>>
    /\ pc = "g_after_final" => hist.upscale_refs = <<gen.initial_task_id>>

\* The upscale of a succeeded initial task was accepted and is being polled.
C10_Witness ==
    /\ hist.initial_ok
    /\ hist.upscale_refs = <<gen.initial_task_id>>
    /\ gen.initial_task_id.kind = "imagine"
    /\ wait.phase = "dependent"
    /\ hist.last_op = "poll"

\* C11: generate_image_async returns a path only if, in the attempt it returns from,
\* the poll of the upscale task ended with SUCCESS, that result carried an image URL
\* and its download returned True; a download is never made for an imagine task.
C11_ArtifactFromLastPhase ==
    /\ (pc \in {"a_return", "t_after1", "t_after2"} /\ gen.result = "path") =>
            /\ hist.final_ok /\ hist.final_url /\ hist.download_ok
            /\ hist.last_op = "download"
            /\ hist.last_target = gen.upscale_task_id
            /\ gen.upscale_task_id = [call |-> hist.calls, attempt |-> gen.attempt,
                                      kind |-> "upscale"]
    /\ hist.last_op = "download" =>
            /\ hist.last_target.kind = "upscale"
            /\ hist.final_ok /\ hist.final_url
    /\ hist.download_ok => gen.result = "path"

\* generate_image_async is about to return the path of a downloaded upscale.
C11_Witness ==
    /\ pc \in {"a_return", "t_after1", "t_after2"}
    /\ gen.result = "path"
    /\ hist.download_ok
    /\ hist.last_target.kind = "upscale"

\* C12: an imagine submission that returned no task id is followed by no status check
\* and no upscale submission: the attempt ends there.
C12_NoPollAfterFailedSubmit ==
    (job.entry # "wait" /\ gen.initial_task_id = NoId) =>
        /\ pc \notin {"w_check", "w_sleep", "g_after_initial", "g_after_final"}
        /\ wait.phase = "none"
        /\ hist.checks_done = 0
        /\ hist.upscale_refs = <<>>
        /\ hist.last_op \notin {"poll", "upscale", "download"}

\* An imagine submission has just failed in a call that had polled a task before.
C12_Witness ==
    /\ pc = "g_submit"
    /\ gen.initial_task_id = NoId
    /\ hist.last_op = "imagine"
    /\ hist.n_imagine >= 2
    /\ hist.timed_out

\* C13: an upscale is submitted for an imagine task only after the poll of that task
\* returned SUCCESS; after a FAILURE or a timeout of the initial wait the attempt
\* submits no upscale and polls no upscale task.
C13_DependentPrecondition ==
    /\ hist.last_op = "upscale" =>
            /\ hist.initial_ok
            /\ hist.last_target = gen.initial_task_id
            /\ gen.initial_task_id.kind = "imagine"
    /\ wait.phase = "dependent" =>
            /\ hist.initial_ok
            /\ gen.upscale_task_id.kind = "upscale"
    /\ \A k \in 1..Len(hist.upscale_refs) : hist.upscale_refs[k].kind = "imagine"
    /\ (pc = "g_submit" /\ hist.fail_kind \in {"timeout", "policy"}
          /\ ~hist.initial_ok /\ gen.initial_task_id # NoId) =>
            /\ hist.upscale_refs = <<>>
            /\ gen.upscale_task_id = NoId

\* The initial task of an earlier attempt failed; the one of this attempt succeeded
\* and its upscale has just been submitted.
C13_Witness ==
    /\ hist.last_op = "upscale"
    /\ hist.initial_ok
    /\ gen.attempt >= 1
    /\ hist.n_imagine = gen.attempt + 1
    /\ pc = "w_check"

\* C14: a batch given blank entries returns one slot per input in input order, marks
\* the slot of each blank entry as skipped, and calls the backend for no blank entry.
C14_BlankInputSkipped ==
    (seq.kind = "batch_synthesize" /\ seq.pc = "returned") =>
        /\ Len(seq.out) = Len(seq.texts)
        /\ \A k \in 1..Len(seq.texts) :
             /\ seq.out[k].id = k - 1
             /\ (seq.texts[k] = "blank") = (seq.out[k].outcome = "skipped")
        /\ \A c \in 1..Len(seq.calls) : seq.texts[seq.calls[c] + 1] # "blank"

\* C15: every admitted job gives its ticket back exactly once, however its body ends:
\* the tickets out are always those of the jobs inside their body, and when every job
\* has finished none is out and nobody waits.
C15_ReleaseOnEveryExit ==
    batch.kind # "none" =>
        /\ semaphore.value + Cardinality({i \in Indices : tasks[i].pc \in {"synth", "gen1", "gen2"}})
              = batch.limit
        /\ (\A i \in Indices : tasks[i].pc = "done") =>
              /\ semaphore.value = batch.limit
              /\ semaphore.waiters = <<>>

\* A voice batch larger than the limit in which a job raised, every job has finished
\* and every ticket is back.
C15_Witness ==
    /\ batch.kind = "voice"
    /\ batch.n > batch.limit
    /\ \E i \in Indices : tasks[i].result.tag = "exception"
    /\ \A i \in Indices : tasks[i].pc = "done"
    /\ semaphore.value = batch.limit

C17_BlockingDoesNotStall ==
    \A i \in Indices :
        (IF batch.kind = "voice" THEN tasks[i].pc = "synth" ELSE call.blocked = i) =>
            /\ tasks[i].pc \in {"synth", "gen1", "gen2"}
            /\ semaphore.value + Cardinality({j \in Indices :
                                    tasks[j].pc \in {"synth", "gen1", "gen2"}}) = batch.limit
            /\ \A j \in Indices \ {i} :
                 tasks[j].pc \in {"synth", "gen1", "gen2"} =>
                    ENABLED (SynthDone(j) \/ GenFirstDone(j) \/ GenSecondDone(j)
                               \/ BlockingCall(j))

\* C18: every result record of a finished job carries exactly one of an artifact and
\* an error: an item of api_generate_batch_audio has a non-null audio_path or a
\* non-null error, never both and never neither.
C18_ResultErrorExclusive ==
    seq.kind = "api" =>
        \A k \in 1..Len(seq.out) : seq.out[k].audio_path # seq.out[k].error

\* C19: the retry controller makes at most max_retries rewrites whatever the hook
\* returns; a hook that returns the prompt it was given uses up a retry like any
\* other, and a job all of whose attempts fail makes exactly max_retries such calls.
C19_NoOpRewritesBounded ==
    job.entry = "retry" =>
        /\ Len(hist.rewrite_log) <= job.max_retries
        /\ Len(hist.rewrite_log) = job.retry_count
        /\ hist.calls <= job.max_retries + 1
        /\ (job.hook = "same" /\ pc = "done" /\ job.ret.code = "500") =>
              /\ Len(hist.rewrite_log) = job.max_retries
              /\ hist.calls = job.max_retries + 1
              /\ \A k \in 1..Len(hist.rewrite_log) :
                    hist.rewrite_log[k].arg = job.original_prompt

\* A job whose hook gave back the prompt unchanged on each of its retries has failed
\* and returned.
C19_Witness ==
    /\ job.entry = "retry"
    /\ job.hook = "same"
    /\ pc = "done"
    /\ job.ret.code = "500"
    /\ job.max_retries >= 2
    /\ job.new_prompt = job.original_prompt
    /\ Len(hist.rewrite_log) = job.max_retries

\* C20: synthesize either produces the audio and returns its duration, or fails with
\* an error: a call whose backend requests all failed returns no success value.
C20_DirectAdapterOutcome ==
    /\ synth.ret = "duration" => synth.audio
    /\ (synth.stage = "done" /\ ~synth.audio) => synth.ret = "raise"

\* C21: the wait returns on the first status check that reports SUCCESS or FAILURE,
\* with that result: while the wait is still polling or sleeping no check has reported
\* a terminal status, and when it has returned a result the last check reported it
\* and the loop had not moved on.
C21_ImmediateStop ==
    wait.phase # "none" =>
        /\ pc \in {"w_check", "w_sleep"} => hist.last_status \notin {"SUCCESS", "FAILURE"}
        /\ (pc \in {"g_after_initial", "g_after_final", "done"}
              /\ wait.result.status # "None") =>
                /\ wait.result.status \in {"SUCCESS", "FAILURE"}
                /\ hist.last_status = wait.result.status
                /\ hist.last_op = "poll"
                /\ hist.checks_done = wait.i + 1

\* A direct wait that slept between checks has returned the FAILURE of its last check.
C21_Witness ==
    /\ wait.phase = "direct"
    /\ pc = "done"
    /\ wait.result.status = "FAILURE"
    /\ hist.last_status = "FAILURE"
    /\ hist.checks_done >= 2

\* C28: a status check that reports ERROR does not end the wait and uses up one
\* iteration of the loop, without the poll-interval sleep; a wait all of whose checks
\* report ERROR returns None after exactly max_retries checks.
C28_StatusErrorsCounted ==
    wait.phase # "none" =>
        /\ hist.last_status = "ERROR" =>
              /\ wait.i = hist.checks_done
              /\ \/ pc = "w_check"
                 \/ /\ wait.result.status = "None"
                    /\ hist.checks_done = wait.max_retries
        /\ (hist.errors_only /\ pc \in {"g_after_initial", "g_after_final", "done"}) =>
              /\ wait.result.status = "None"
              /\ hist.checks_done = wait.max_retries
              /\ wait.i = wait.max_retries

\* A direct wait whose every check reported ERROR has returned None.
C28_Witness ==
    /\ wait.phase = "direct"
    /\ pc = "done"
    /\ hist.errors_only
    /\ hist.last_status = "ERROR"
    /\ wait.max_retries >= 2
    /\ hist.checks_done = wait.max_retries
    /\ job.ret.code = "None"

\* C22: generate_image returns the output path whenever, within its max_retries
\* attempts, the backend lets some attempt succeed in every step (imagine accepted,
\* initial task SUCCESS with an image URL, upscale accepted, upscale task SUCCESS with
\* an image URL, download done), and returns None only when every attempt failed.
C22_SyncResult ==
    sync.pc = "returned" =>
        /\ sync.ret = "None" =>
              /\ Len(sync.backend) = sync.max_retries
              /\ \A k \in 1..Len(sync.backend) : sync.backend[k] # "all_succeed"
        /\ (\E k \in 1..Len(sync.backend) : sync.backend[k] = "all_succeed") =>
              sync.ret = "path"

\* C25: the wait loop of get_images always exits, whatever the websocket delivers.
C25_WaitLoopExits == (comfy.pc = "wait") ~> (comfy.pc # "wait")

\* C23: each _with_retry calls func at most self.max_retries times, returns with the
\* first call that does not raise and calls func no more, and raises its service
\* error exactly when max_retries calls were made and all of them raised.
C23_WithRetryBounded ==
    /\ synth.calls <= SynthMaxRetries
    /\ synth.stage \in {"audio_query", "synthesis", "speech"} => synth.calls = synth.attempt
    /\ \A k \in 1..Len(synth.retries) :
         LET r == synth.retries[k] IN
            /\ r.calls <= SynthMaxRetries
            /\ r.outcome = "returned" => r.calls = r.raised + 1
            /\ r.outcome = "raised" <=>
                  (r.calls = SynthMaxRetries /\ r.raised = SynthMaxRetries)

C23_Witness ==
    /\ synth.generator = "voicevox"
    /\ synth.stage = "done"
    /\ synth.retries = <<WithRetryOver(SynthMaxRetries, SynthMaxRetries - 1, "returned"),
                         WithRetryOver(SynthMaxRetries, SynthMaxRetries, "raised")>>

\* What C24 says of a finished request: the response is the list of results, with
\* one item per text, item k carrying index k; every text that is not blank was
\* worked on, whatever happened to the texts before it; no item is 'pending'.
ApiAnswersEveryText ==
    /\ seq.pc = "returned"
    /\ Len(seq.out) = Len(seq.texts)
    /\ \A k \in 1..Len(seq.out) :
         /\ seq.out[k].index = k - 1
         /\ seq.out[k].status \in {"error", "success", "success_no_duration"}
         /\ IsBlank(seq.texts[k]) => seq.out[k].status = "error"
         /\ ~IsBlank(seq.texts[k]) => \E c \in 1..Len(seq.calls) : seq.calls[c] = k - 1

\* C24 (as stated): for a non-empty list of texts, api_generate_batch_audio returns
\* exactly one item per input text, item k with index k, failures not stopping later
\* lines, and no item left 'pending'.
C24_OneItemPerText ==
    (seq.kind = "api" /\ seq.is_json /\ seq.texts # <<>>
        /\ seq.pc \in {"returned", "400", "415"}) => ApiAnswersEveryText

\* C24 (amended): the same for a request that also carries a speaker_id; without one
\* the answer is the 400 error and no item at all.
C24_OneItemPerTextWithSpeaker ==
    (seq.kind = "api" /\ seq.is_json /\ seq.texts # <<>>
        /\ seq.pc \in {"returned", "400", "415"}) =>
            IF seq.speaker_id THEN ApiAnswersEveryText
            ELSE seq.pc = "400" /\ seq.out = <<>> /\ seq.calls = <<>>

C24_Witness ==
    /\ seq.kind = "api"
    /\ seq.pc = "returned"
    /\ seq.texts = <<"text", "blank", "text">>
    /\ seq.out[1].status = "error"
    /\ seq.out[2].status = "error"
    /\ seq.out[3].status = "success"

\* C26: regenerate_scene_image_with_retry called with a scene_id outside
\* 1..len(scenes) returns status 400 in its one step, with no generator call, no
\* rewrite call, and the scene list and the saved file as they were; and status 400
\* is returned to no scene_id inside 1..len(scenes).
C26_InvalidIndexRejected ==
    /\ [][(job.entry = "retry" /\ job.scene_id \notin 1..Len(scenes)) =>
             /\ pc = "r_start" /\ pc' = "done"
             /\ job'.ret.code = "400"
             /\ scenes' = scenes
             /\ persisted' = persisted
             /\ gen' = gen /\ wait' = wait
             /\ hist'.calls = 0
             /\ hist'.rewrite_log = <<>>]_vars
    /\ []((pc = "done" /\ job.ret.code = "400") => job.scene_id \notin 1..Len(scenes))

\* An index past the end was rejected while the saved file was behind the scene list.
C26_Witness ==
    /\ job.entry = "retry"
    /\ job.scene_id = Len(scenes) + 1
    /\ pc = "done"
    /\ job.ret.code = "400"
    /\ persisted = StaleScenes
    /\ persisted # scenes
    /\ hist.calls = 0

\* C27: a scene task of the Midjourney batch calls the rewrite hook at most once, with
\* retry number 0 and the original prompt; it calls generate_image_async at most
\* twice, the second time only after the first returned no image; each call makes at
\* most max_retries = 3 imagine and 3 upscale submissions, so the scene at most 6 of each.
C27_BoundedWorkPerScene ==
    job.entry = "scene_task" =>
        /\ hist.calls <= 2
        /\ Len(hist.rewrite_log) <= 1
        /\ \A k \in 1..Len(hist.rewrite_log) :
             /\ hist.rewrite_log[k].n = 0
             /\ hist.rewrite_log[k].arg = Prompt(job.scene_id)
        /\ hist.calls = 2 <=> Len(hist.rewrite_log) = 1
        /\ hist.calls = 2 => hist.first_call.result = "None"
        /\ (pc = "done" /\ hist.first_call.result # "None") => hist.calls = 1
        /\ hist.n_imagine <= GenMaxRetries
        /\ hist.n_upscale <= GenMaxRetries
        /\ hist.n_upscale <= hist.n_imagine
        /\ hist.first_call.imagine + hist.n_imagine <= 6
        /\ hist.first_call.upscale + hist.n_upscale <= 6

\* The second call of a scene task is at its third upscale submission, after a first
\* call that made three imagine and three upscale submissions.
C27_Witness ==
    /\ job.entry = "scene_task"
    /\ hist.calls = 2
    /\ hist.first_call = [imagine |-> 3, upscale |-> 3, result |-> "None"]
    /\ hist.n_imagine = 3
    /\ hist.n_upscale = 3
    /\ hist.rewrite_log = <<[arg |-> Prompt(job.scene_id), n |-> 0]>>

\* C29: when process_voice_generation returns, successful_generations is the number
\* of records with a duration, these and the records with an error are together the
\* total_sentences sentences of the input, and total_duration is the sum of the
\* durations the successful sentences returned.
C29_VoiceAccounting ==
    (batch.kind = "voice" /\ call.pc = "returned") =>
        LET with_duration == {k \in 1..Len(call.output) : call.output[k].outcome = "duration"}
            with_error == {k \in 1..Len(call.output) : call.output[k].outcome = "error"}
        IN  /\ call.info.total_sentences = batch.n
            /\ call.info.successful_generations = Cardinality(with_duration)
            /\ Cardinality(with_duration) + Cardinality(with_error)
                  = call.info.total_sentences
            /\ call.info.total_duration =
                  SumTo([k \in 1..Len(call.output) |->
                            IF k \in with_duration THEN Duration(call.output[k].id) ELSE 0],
                        Len(call.output))
            /\ \A k \in with_duration :
                  tasks[call.output[k].id].result.duration = Duration(call.output[k].id)

\* A voice batch returned with a success, a failed sentence and a task that raised,
\* finished out of input order.
C29_Witness ==
    /\ batch.kind = "voice"
    /\ call.pc = "returned"
    /\ batch.n = 3
    /\ call.out_of_order
    /\ tasks[0].result.tag = "exception"
    /\ call.output[2].outcome = "error"
    /\ call.output[3].outcome = "duration"
    /\ call.info = [total_sentences |-> 3, total_duration |-> 3, successful_generations |-> 1]

\* The voice jobs that are in flight: inside `async with semaphore`.
InFlight == {i \in Indices : batch.kind = "voice" /\ tasks[i].pc = "synth"}

\* C30 (as stated): the voice job with index i writes only the file audio_{i:03d}.wav,
\* the names of different indices differ, and no two jobs in flight write the same file.
C30_OnlyOwnWav ==
    batch.kind = "voice" =>
        /\ \A i \in Indices : TaskWrites(i) = {[stem |-> ZeroPad(Digits(i), 3), ext |-> ".wav"]}
        /\ \A i, j \in Indices : i # j => audio_file(i) # audio_file(j)
        /\ \A i, j \in InFlight : i # j => TaskWrites(i) \cap TaskWrites(j) = {}

\* C30 (amended): the voice job with index i writes only files named audio_{i:03d}:
\* the .wav, and with OpenAI TTS also the temporary .mp3 of the same stem; the names
\* of different indices differ, and no two jobs in flight write the same file.
C30_DistinctArtifacts ==
    batch.kind = "voice" =>
        /\ \A i \in Indices :
             /\ [stem |-> ZeroPad(Digits(i), 3), ext |-> ".wav"] \in TaskWrites(i)
             /\ \A f \in TaskWrites(i) :
                  /\ f.stem = ZeroPad(Digits(i), 3)
                  /\ f.ext \in {".wav", ".mp3"}
                  /\ f.ext = ".mp3" => batch.tts_service = "openai_tts"
             /\ Len(audio_file(i).stem) >= 3
        /\ \A i, j \in Indices : i # j => audio_file(i) # audio_file(j)
        /\ \A i, j \in InFlight : i # j => TaskWrites(i) \cap TaskWrites(j) = {}

\* MAX_CONCURRENT_REQUESTS jobs are in flight, among them index 9 and index 10, whose
\* names differ in two digits.
C30_Witness ==
    /\ batch.kind = "voice"
    /\ Cardinality(InFlight) = MAX_CONCURRENT_REQUESTS
    /\ {9, 10} \subseteq InFlight
    /\ audio_file(9).stem = <<0, 0, 9>>
    /\ audio_file(10).stem = <<0, 1, 0>>

====
